---- MODULE Spec2Model ----
(***************************************************************************)
(* Decision engine of the three Trader variants (src/main.py,              *)
(* src/strategies/mean_revert.py, src/strategies/arbitrary_regression.py). *)
(* Python floats are IEEE-754 binary64; they are modelled bit-exactly as   *)
(* a 53-bit mantissa (little-endian limbs) and a binary exponent, with     *)
(* round-to-nearest-even after every operation.                            *)
(***************************************************************************)
EXTENDS Integers, Sequences, FiniteSets, TLC

(***************************************************************************)
(* Natural numbers of arbitrary size: little-endian sequences of limbs.    *)
(***************************************************************************)
LimbBits == 14 + 1
Base == 2^LimbBits
MantBits == 52 + 1

HeadOr0(a) == IF a = <<>> THEN 0 ELSE Head(a)
TailOrEmpty(a) == IF a = <<>> THEN a ELSE Tail(a)

RECURSIVE Strip(_)
Strip(n) ==
    IF n = <<>> THEN n
    ELSE IF n[Len(n)] = 0 THEN Strip(SubSeq(n, 1, Len(n) - 1)) ELSE n

RECURSIVE BFromInt(_)
BFromInt(x) == IF x = 0 THEN <<>> ELSE <<x % Base>> \o BFromInt(x \div Base)

RECURSIVE BToInt(_)
BToInt(n) == IF n = <<>> THEN 0 ELSE Head(n) + Base * BToInt(Tail(n))

\* a + b + c
RECURSIVE BAddC(_, _, _)
RECURSIVE BAddStep(_, _, _)
BAddStep(x, ta, tb) == <<x % Base>> \o BAddC(ta, tb, x \div Base)
BAddC(a, b, c) ==
    IF a = <<>> /\ b = <<>> THEN (IF c = 0 THEN <<>> ELSE <<c>>)
    ELSE BAddStep(HeadOr0(a) + HeadOr0(b) + c, TailOrEmpty(a), TailOrEmpty(b))

BAdd(a, b) == BAddC(a, b, 0)

\* a - b - c for a >= b + c
RECURSIVE BSubC(_, _, _)
RECURSIVE BSubStep(_, _, _)
BSubStep(x, ta, tb) == <<x % Base>> \o BSubC(ta, tb, IF x < 0 THEN 1 ELSE 0)
BSubC(a, b, c) ==
    IF a = <<>> THEN <<>>
    ELSE BSubStep(Head(a) - HeadOr0(b) - c, Tail(a), TailOrEmpty(b))

BSub(a, b) == Strip(BSubC(a, b, 0))

\* a * k + c for 0 <= k <= Base
RECURSIVE BMulSmallC(_, _, _)
RECURSIVE BMulSmallStep(_, _, _)
BMulSmallStep(x, ta, k) == <<x % Base>> \o BMulSmallC(ta, k, x \div Base)
BMulSmallC(a, k, c) ==
    IF a = <<>> THEN (IF c = 0 THEN <<>> ELSE <<c>>)
    ELSE BMulSmallStep(Head(a) * k + c, Tail(a), k)

BMulSmall(a, k) == IF k = 0 THEN <<>> ELSE BMulSmallC(a, k, 0)

ShiftLimb(n) == IF n = <<>> THEN n ELSE <<0>> \o n

RECURSIVE BMul(_, _)
BMul(a, b) ==
    IF b = <<>> \/ a = <<>> THEN <<>>
    ELSE BAdd(BMulSmall(a, Head(b)), ShiftLimb(BMul(a, Tail(b))))

\* quotient and remainder of a by d, 0 < d <= Base
RECURSIVE BDivSmall(_, _)
BDivPut(q, x, d) == [q |-> <<x \div d>> \o q, r |-> x % d]
BDivStep(hi, h, d) == BDivPut(hi.q, hi.r * Base + h, d)
BDivSmall(a, d) ==
    IF a = <<>> THEN [q |-> <<>>, r |-> 0]
    ELSE BDivStep(BDivSmall(Tail(a), d), Head(a), d)

RECURSIVE BitLenSmall(_)
BitLenSmall(x) == IF x = 0 THEN 0 ELSE 1 + BitLenSmall(x \div 2)

BitLen(n) == IF n = <<>> THEN 0 ELSE LimbBits * (Len(n) - 1) + BitLenSmall(n[Len(n)])

Zeros(k) == [i \in 1..k |-> 0]

BShl(n, k) ==
    IF n = <<>> THEN n
    ELSE Zeros(k \div LimbBits) \o BMulSmallC(n, 2^(k % LimbBits), 0)

\* n shifted right by k bits, and whether a nonzero bit was shifted out
BShrPack(d, low) ==
    [q |-> Strip(d.q), sticky |-> d.r # 0 \/ \E i \in 1..Len(low) : low[i] # 0]
BShrSticky(n, k) ==
    BShrPack(BDivSmall(SubSeq(n, k \div LimbBits + 1, Len(n)), 2^(k % LimbBits)),
             SubSeq(n, 1, k \div LimbBits))

\* -1, 0, 1 as a < b, a = b, a > b (a, b stripped)
RECURSIVE BCmp(_, _)
BCmp(a, b) ==
    IF Len(a) # Len(b) THEN (IF Len(a) < Len(b) THEN -1 ELSE 1)
    ELSE IF a = <<>> THEN 0
    ELSE IF a[Len(a)] # b[Len(b)] THEN (IF a[Len(a)] < b[Len(b)] THEN -1 ELSE 1)
    ELSE BCmp(SubSeq(a, 1, Len(a) - 1), SubSeq(b, 1, Len(b) - 1))

(***************************************************************************)
(* binary64: a non-negative float is [m, e] with value m * 2^e, m = <<>>   *)
(* for 0.0 and otherwise a mantissa of exactly MantBits bits.  The values  *)
(* of the program stay far from the exponent limits.  Intermediate values  *)
(* are passed as operator arguments, which are evaluated once.             *)
(***************************************************************************)
FZero == [m |-> <<>>, e |-> 0]

\* the binary64 nearest to n * 2^e (ties to even); sticky: a nonzero part below n
FRoundM(m, e) ==
    IF BitLen(m) > MantBits
    THEN [m |-> Strip(BDivSmall(m, 2).q), e |-> e + 1]
    ELSE [m |-> m, e |-> e]
FRoundQ(q, roundbit, sticky, e) ==
    FRoundM(IF roundbit /\ (sticky \/ q[1] % 2 = 1) THEN BAdd(q, <<1>>) ELSE q, e)
FRoundH(half, sticky, e) == FRoundQ(Strip(half.q), half.r = 1, sticky, e)
FRoundS(sh, e, sticky) == FRoundH(BDivSmall(sh.q, 2), sh.sticky \/ sticky, e)
FRoundB(n, bl, e, sticky) ==
    IF bl <= MantBits
    THEN [m |-> BShl(n, MantBits - bl), e |-> e - (MantBits - bl)]
    ELSE FRoundS(BShrSticky(n, bl - MantBits - 1), e + bl - MantBits, sticky)
FRoundN(n, e, sticky) ==
    IF n = <<>> THEN FZero ELSE FRoundB(n, BitLen(n), e, sticky)
FRoundSticky(n, e, sticky) == FRoundN(Strip(n), e, sticky)

FRound(n, e) == FRoundSticky(n, e, FALSE)

\* int -> float (exact for the integers of the program), x >= 0
FFromInt(x) == FRound(BFromInt(x), 0)

\* the correctly rounded quotient a / b of two ints, a >= 0, 0 < b < Base:
\* Python's int / int, and the value of a decimal literal such as 0.1 = 1 / 10
FDivPack(d) == FRoundSticky(d.q, -(5 * LimbBits), d.r # 0)
FDivInt(a, b) == FDivPack(BDivSmall(BShl(BFromInt(a), 5 * LimbBits), b))

FMul(a, b) == FRound(BMul(a.m, b.m), a.e + b.e)

FAlign(a, e) == BShl(a.m, a.e - e)

FMinExp(a, b) ==
    IF a.m = <<>> THEN b.e ELSE IF b.m = <<>> THEN a.e
    ELSE IF a.e < b.e THEN a.e ELSE b.e

FAddAt(a, b, e) == FRound(BAdd(FAlign(a, e), FAlign(b, e)), e)
FAdd(a, b) == FAddAt(a, b, FMinExp(a, b))

\* a - b for a >= b >= 0
FSubAt(a, b, e) == FRound(BSub(FAlign(a, e), FAlign(b, e)), e)
FSub(a, b) == FSubAt(a, b, FMinExp(a, b))

FCmpAt(a, b, e) == BCmp(FAlign(a, e), FAlign(b, e))
FCmp(a, b) == FCmpAt(a, b, FMinExp(a, b))

FLt(a, b) == FCmp(a, b) < 0
FLe(a, b) == FCmp(a, b) <= 0

\* int(x): truncation toward zero, x >= 0
FTrunc(x) ==
    IF x.m = <<>> THEN 0
    ELSE IF x.e >= 0 THEN BToInt(BShl(x.m, x.e))
    ELSE BToInt(BShrSticky(x.m, -x.e).q)

\* round(x): nearest integer, ties to even, x >= 0
FRoundIntQ(q, roundbit, sticky) ==
    IF roundbit /\ (sticky \/ q % 2 = 1) THEN q + 1 ELSE q
FRoundIntH(half, sticky) == FRoundIntQ(BToInt(half.q), half.r = 1, sticky)
FRoundIntS(sh) == FRoundIntH(BDivSmall(sh.q, 2), sh.sticky)
FRoundInt(x) ==
    IF x.m = <<>> THEN 0
    ELSE IF x.e >= 0 THEN BToInt(BShl(x.m, x.e))
    ELSE FRoundIntS(BShrSticky(x.m, -x.e - 1))

FOne == FFromInt(1)
FHalf == FDivInt(1, 2)

(***************************************************************************)
(* Configuration of the three Trader classes (their __init__).             *)
(***************************************************************************)
RESIN == "RAINFOREST_RESIN"
KELP == "KELP"
Products == {RESIN, KELP}

\* Optional values: None, or <<v>> for the value v
None == <<>>
Some(v) == <<v>>
Value(o) == o[1]

\* main.py
initial_fair_values == (RESIN :> FFromInt(10000)) @@ (KELP :> FDivInt(4057, 2))
main_position_limits == (RESIN :> 50) @@ (KELP :> 50)
main_thresholds == (RESIN :> 10) @@ (KELP :> 2)
main_alpha == FDivInt(1, 10)
main_quantity == 18
main_offset == FDivInt(1, 2)

\* strategies/mean_revert.py
mr_fair_values == (RESIN :> FFromInt(10000)) @@ (KELP :> FDivInt(4057, 2))
mr_base_thresholds == (RESIN :> 3) @@ (KELP :> 2)
mr_position_limits == (RESIN :> 50) @@ (KELP :> 50)
mr_inventory_adjustment_factor == FDivInt(1, 10)
mr_alpha == FDivInt(1, 10)
mr_base_order_sizes == (RESIN :> 30) @@ (KELP :> 20)
mr_base_offset == 2
mr_min_spread == 2
mr_breakpoint == 10

\* strategies/arbitrary_regression.py
ar_min_points == 10
ar_history_window == 50
ar_base_fair_values == (RESIN :> FFromInt(10000)) @@ (KELP :> FDivInt(4057, 2))
ar_thresholds == (RESIN :> 10) @@ (KELP :> 2)
ar_position_limits == (RESIN :> 50) @@ (KELP :> 50)
ar_inventory_adjustment_factor == FDivInt(1, 10)
ar_alpha == FDivInt(1, 10)
ar_base_order_size == 18
ar_offset == FDivInt(1, 2)

Variants == {"main", "mean_revert", "arbitrary_regression"}

InitialFairValues(v) ==
    IF v = "main" THEN initial_fair_values
    ELSE IF v = "mean_revert" THEN mr_fair_values ELSE ar_base_fair_values

(***************************************************************************)
(* Helpers shared by the three run methods.                                *)
(***************************************************************************)
Max(S) == CHOOSE a \in S : \A b \in S : b <= a
Min(S) == CHOOSE a \in S : \A b \in S : a <= b
min(a, b) == IF a <= b THEN a ELSE b
max(a, b) == IF a >= b THEN a ELSE b
abs(a) == IF a < 0 THEN -a ELSE a

Order(symbol, price, quantity) ==
    [symbol |-> symbol, price |-> price, quantity |-> quantity]

\* positions.get(product, 0)
CurrentPosition(st, product) ==
    IF product \in DOMAIN st.position THEN st.position[product] ELSE 0

\* best_bid gone wrong: with no bids, the best ask is returned instead of None
best_bid_fallback(od) ==
    IF od.buy_orders # {} THEN Some(Max(od.buy_orders))
    ELSE IF od.sell_orders # {} THEN Some(Min(od.sell_orders)) ELSE None

best_bid(od) == IF od.buy_orders # {} THEN Some(Max(od.buy_orders)) ELSE None
best_ask(od) == IF od.sell_orders # {} THEN Some(Min(od.sell_orders)) ELSE None

\* (best_bid + best_ask) / 2
mid_market(bb, ba) == FDivInt(bb + ba, 2)

\* (1 - alpha) * a + alpha * b
Blend(alpha, a, b) == FAdd(FMul(FSub(FOne, alpha), a), FMul(alpha, b))

\* fair_value - current_position * factor
InventoryAdjusted(fair_value, pos, factor) ==
    IF pos >= 0 THEN FSub(fair_value, FMul(FFromInt(pos), factor))
    ELSE FAdd(fair_value, FMul(FFromInt(-pos), factor))

\* the product is not traded on this tick (the two `continue`s of the loop)
Skip(fv) == [skip |-> TRUE, fair_value |-> fv, orders |-> <<>>, mode |-> "NONE"]

Traded(fv, mode, orders) ==
    [skip |-> FALSE, fair_value |-> fv, orders |-> orders, mode |-> mode]

(***************************************************************************)
(* main.py, Trader.run: one iteration of the product loop.                 *)
(***************************************************************************)
MainMode(mid, fair_value, threshold, pos) ==
    IF FLt(FAdd(fair_value, FFromInt(threshold)), mid) /\ pos > 0
    THEN "UNWIND_LONG"
    ELSE IF FLt(mid, FSub(fair_value, FFromInt(threshold))) /\ pos < 0
    THEN "COVER_SHORT"
    ELSE "MARKET_MAKE"

MainOrders(product, mode, mid, bb, ba, pos) ==
    IF mode = "UNWIND_LONG"
    THEN <<Order(product, bb, -min(main_quantity, pos))>>
    ELSE IF mode = "COVER_SHORT"
    THEN <<Order(product, ba,
                 min(main_quantity, main_position_limits[product] - abs(pos)))>>
    ELSE (IF pos < main_position_limits[product]
          THEN <<Order(product, FRoundInt(FSub(mid, main_offset)), main_quantity)>>
          ELSE <<>>)
         \o
         (IF pos > -main_position_limits[product]
          THEN <<Order(product, FRoundInt(FAdd(mid, main_offset)), -main_quantity)>>
          ELSE <<>>)

MainEmit(product, pos, bb, ba, mid, fv, mode) ==
    Traded(fv, mode, MainOrders(product, mode, mid, bb, ba, pos))

MainDecide(product, pos, bb, ba, mid, fv) ==
    MainEmit(product, pos, bb, ba, mid, fv,
             MainMode(mid, fv, main_thresholds[product], pos))

MainUpdate(product, pos, bb, ba, mid, old_fv) ==
    MainDecide(product, pos, bb, ba, mid, Blend(main_alpha, old_fv, mid))

MainBook(product, pos, obb, oba, old_fv) ==
    IF obb = None \/ oba = None THEN Skip(old_fv)
    ELSE MainUpdate(product, pos, Value(obb), Value(oba),
                    mid_market(Value(obb), Value(oba)), old_fv)

MainProduct(product, st, old_fv) ==
    IF product \notin DOMAIN st.order_depths THEN Skip(old_fv)
    ELSE MainBook(product, CurrentPosition(st, product),
                  best_bid(st.order_depths[product]),
                  best_ask(st.order_depths[product]), old_fv)

(***************************************************************************)
(* strategies/mean_revert.py, Trader.run: one iteration of the loop.       *)
(***************************************************************************)
\* dynamic_size gone wrong: the 50% floor is left out
dynamic_size_nofloor(base_order_size, pos, pos_limit) ==
    IF abs(pos) < mr_breakpoint THEN base_order_size
    ELSE FTrunc(FMul(FFromInt(base_order_size),
                     FSub(FOne, FDivInt(abs(pos) - mr_breakpoint,
                                        pos_limit - mr_breakpoint))))

dynamic_size(base_order_size, pos, pos_limit) ==
    IF abs(pos) < mr_breakpoint THEN base_order_size
    ELSE max(FTrunc(FMul(FFromInt(base_order_size),
                         FSub(FOne, FDivInt(abs(pos) - mr_breakpoint,
                                            pos_limit - mr_breakpoint)))),
             FTrunc(FMul(FFromInt(base_order_size), FHalf)))

AdjustedMode(mid, adjusted_fv, threshold, pos) ==
    IF FLt(FAdd(adjusted_fv, threshold), mid) /\ pos > 0
    THEN "UNWIND_LONG"
    ELSE IF FLt(mid, FSub(adjusted_fv, threshold)) /\ pos < 0
    THEN "COVER_SHORT"
    ELSE "MARKET_MAKE"

dynamic_offset(spread) ==
    IF spread > mr_min_spread
    THEN FAdd(FFromInt(mr_base_offset), FMul(FFromInt(spread - mr_min_spread), FHalf))
    ELSE FFromInt(mr_base_offset)

MeanRevertOrders(product, mode, mid, bb, ba, pos, size, offset) ==
    IF mode = "UNWIND_LONG"
    THEN <<Order(product, bb, -min(size, pos))>>
    ELSE IF mode = "COVER_SHORT"
    THEN <<Order(product, ba, min(size, mr_position_limits[product] - abs(pos)))>>
    ELSE (IF pos < mr_position_limits[product]
          THEN <<Order(product, FRoundInt(FSub(mid, offset)), size)>>
          ELSE <<>>)
         \o
         (IF pos > -mr_position_limits[product]
          THEN <<Order(product, FRoundInt(FAdd(mid, offset)), -size)>>
          ELSE <<>>)

MeanRevertEmit(product, pos, bb, ba, mid, fv, mode) ==
    Traded(fv, mode,
           MeanRevertOrders(product, mode, mid, bb, ba, pos,
                            dynamic_size(mr_base_order_sizes[product], pos,
                                         mr_position_limits[product]),
                            dynamic_offset(ba - bb)))

MeanRevertDecide(product, pos, bb, ba, mid, fv) ==
    MeanRevertEmit(product, pos, bb, ba, mid, fv,
        AdjustedMode(mid,
                     InventoryAdjusted(fv, pos, mr_inventory_adjustment_factor),
                     FFromInt(mr_base_thresholds[product]), pos))

MeanRevertUpdate(product, pos, bb, ba, mid, old_fv) ==
    MeanRevertDecide(product, pos, bb, ba, mid, Blend(mr_alpha, old_fv, mid))

MeanRevertBook(product, pos, obb, oba, old_fv) ==
    IF obb = None \/ oba = None THEN Skip(old_fv)
    ELSE MeanRevertUpdate(product, pos, Value(obb), Value(oba),
                          mid_market(Value(obb), Value(oba)), old_fv)

MeanRevertProduct(product, st, old_fv) ==
    IF product \notin DOMAIN st.order_depths THEN Skip(old_fv)
    ELSE MeanRevertBook(product, CurrentPosition(st, product),
                        best_bid(st.order_depths[product]),
                        best_ask(st.order_depths[product]), old_fv)

(***************************************************************************)
(* strategies/arbitrary_regression.py, Trader.run: one iteration.          *)
(***************************************************************************)
\* HistoryAppend gone wrong: the newest entry is dropped, not the oldest
\* (pop() for pop(0))
HistoryAppendPopLast(h, entry) ==
    IF Len(h) + 1 > ar_history_window THEN h ELSE Append(h, entry)

\* history.append(entry), then pop(0) once the window is exceeded
HistoryAppend(h, entry) ==
    IF Len(h) + 1 > ar_history_window THEN Tail(Append(h, entry))
    ELSE Append(h, entry)

\* np.polyfit and statistics.stdev are library code in floating point: once the
\* regression runs, the outcome of comparing mid_market with
\* adjusted_fv +/- dynamic_threshold is one of Deviations, chosen by the environment
Deviations == {"above", "below", "within"}

RegressionMode(dev, pos) ==
    IF dev = "above" /\ pos > 0 THEN "UNWIND_LONG"
    ELSE IF dev = "below" /\ pos < 0 THEN "COVER_SHORT"
    ELSE "MARKET_MAKE"

RegressionOrders(product, mode, mid, bb, ba, pos) ==
    IF mode = "UNWIND_LONG"
    THEN <<Order(product, bb, -min(ar_base_order_size, pos))>>
    ELSE IF mode = "COVER_SHORT"
    THEN <<Order(product, ba,
                 min(ar_base_order_size, ar_position_limits[product] - abs(pos)))>>
    ELSE <<Order(product, FRoundInt(FSub(mid, ar_offset)), ar_base_order_size),
           Order(product, FRoundInt(FAdd(mid, ar_offset)), -ar_base_order_size)>>

RegressionSkip(fv, h) == Skip(fv) @@ [history |-> h, fitted |-> FALSE]

RegressionEmit(product, pos, bb, ba, mid, fv, h, fitted, mode) ==
    Traded(fv, mode, RegressionOrders(product, mode, mid, bb, ba, pos))
    @@ [history |-> h, fitted |-> fitted]

\* RAINFOREST_RESIN below min_points: predicted_fv = mid_market, base threshold
ColdStartMode(product, pos, mid) ==
    AdjustedMode(mid,
                 InventoryAdjusted(Blend(ar_alpha, mid, mid), pos,
                                   ar_inventory_adjustment_factor),
                 FFromInt(ar_thresholds[product]), pos)

\* KELP: the static fair value and threshold
StaticMode(product, pos, mid, fv) ==
    AdjustedMode(mid,
                 InventoryAdjusted(fv, pos, ar_inventory_adjustment_factor),
                 FFromInt(ar_thresholds[product]), pos)

RegressionResin(product, pos, bb, ba, mid, fv, h, dev) ==
    IF Len(h) >= ar_min_points
    THEN RegressionEmit(product, pos, bb, ba, mid, fv, h, TRUE,
                        RegressionMode(dev, pos))
    ELSE RegressionEmit(product, pos, bb, ba, mid, fv, h, FALSE,
                        ColdStartMode(product, pos, mid))

RegressionUpdate(product, pos, bb, ba, mid, t, fv, h, dev) ==
    IF product = RESIN
    THEN RegressionResin(product, pos, bb, ba, mid, fv,
                         HistoryAppend(h, <<t, mid>>), dev)
    ELSE RegressionEmit(product, pos, bb, ba, mid, fv, h, FALSE,
                        StaticMode(product, pos, mid, fv))

RegressionBook(product, pos, obb, oba, t, fv, h, dev) ==
    IF obb = None \/ oba = None THEN RegressionSkip(fv, h)
    ELSE RegressionUpdate(product, pos, Value(obb), Value(oba),
                          mid_market(Value(obb), Value(oba)), t, fv, h, dev)

RegressionProduct(product, st, fv, h, dev) ==
    IF product \notin DOMAIN st.order_depths THEN RegressionSkip(fv, h)
    ELSE RegressionBook(product, CurrentPosition(st, product),
                        best_bid(st.order_depths[product]),
                        best_ask(st.order_depths[product]),
                        st.timestamp, fv, h, dev)

(***************************************************************************)
(* The snapshots the harness passes to run.                                *)
(***************************************************************************)
Depth(bids, asks) == [buy_orders |-> bids, sell_orders |-> asks]

FullDepths ==
    (RESIN :> { Depth({9999, 9998}, {10001, 10003}),
                Depth({9990, 9994}, {9996, 10001}),
                Depth({9999}, {10000}),
                Depth({10008}, {10012}),
                Depth({10010, 10009}, {10014}),
                Depth({9986}, {9990}) })
    @@
    (KELP :> { Depth({2028}, {2029}),
               Depth({2032, 2031}, {2035}),
               Depth({2028}, {2030, 2031}),
               Depth({2025}, {2027}) })

PartialDepths ==
    (RESIN :> { Depth({}, {10001}), Depth({9999}, {}) })
    @@
    (KELP :> { Depth({}, {2029}), Depth({2028}, {}) })

Positions == {-50, -5, 0, 20, 40, 50}

Absent == [present |-> FALSE, od |-> Depth({}, {}), pos |-> 0]

ProductScenarios(p) ==
    {Absent}
    \cup { [present |-> TRUE, od |-> d, pos |-> q] : d \in FullDepths[p], q \in Positions }
    \cup { [present |-> TRUE, od |-> d, pos |-> 0] : d \in PartialDepths[p] }

\* a product that is not listed on the tick
QuietScenarios(p) == {Absent}

\* per tick, at least one of the products is quiet
Scenarios ==
    { sc \in [Products -> UNION {ProductScenarios(p) : p \in Products}] :
        /\ \A p \in Products : sc[p] \in ProductScenarios(p)
        /\ \E p \in Products : sc[p] \in QuietScenarios(p) }

MakeState(t, sc) ==
    [timestamp |-> t,
     order_depths |-> [p \in {q \in Products : sc[q].present} |-> sc[p].od],
     position |-> [p \in {q \in Products : sc[q].pos # 0} |-> sc[p].pos]]

TradingStates(t) == { MakeState(t, sc) : sc \in Scenarios }

(***************************************************************************)
(* State.                                                                  *)
(***************************************************************************)
VARIABLES
    variant,      \* which Trader class is running
    fair_values,  \* self.fair_values
    history,      \* self.history['RAINFOREST_RESIN'] (arbitrary_regression)
    calls,        \* number of run calls made so far; the next state.timestamp
    state,        \* the TradingState of the latest call
    result,       \* the order mapping the latest call returned
    mode          \* per product, the branch the latest call took

vars == <<variant, fair_values, history, calls, state, result, mode>>

NoState == [timestamp |-> 0, order_depths |-> <<>>, position |-> <<>>]

Init ==
    /\ variant \in Variants
    /\ fair_values = InitialFairValues(variant)
    /\ history = <<>>
    /\ calls = 0
    /\ state = NoState
    /\ result = <<>>
    /\ mode = [p \in Products |-> "NONE"]

\* what run returns and leaves behind, r[p] being product p's iteration
Return(st, r) ==
    /\ state' = st
    /\ fair_values' = [p \in Products |-> r[p].fair_value]
    /\ result' = [p \in {q \in Products : ~r[q].skip} |-> r[p].orders]
    /\ mode' = [p \in Products |-> r[p].mode]
    /\ calls' = calls + 1

ReturnRegression(st, r, dev) ==
    /\ (r[RESIN].fitted \/ dev = "within")
    /\ Return(st, r)
    /\ history' = r[RESIN].history

RunMain(States, limit) ==
    /\ variant = "main"
    /\ calls < limit
    /\ \E st \in States :
         Return(st, [p \in Products |-> MainProduct(p, st, fair_values[p])])
    /\ UNCHANGED <<variant, history>>

RunMeanRevert(States, limit) ==
    /\ variant = "mean_revert"
    /\ calls < limit
    /\ \E st \in States :
         Return(st, [p \in Products |-> MeanRevertProduct(p, st, fair_values[p])])
    /\ UNCHANGED <<variant, history>>

RunRegression(States, limit) ==
    /\ variant = "arbitrary_regression"
    /\ calls < limit
    /\ \E st \in States, dev \in Deviations :
         ReturnRegression(st,
             [p \in Products |->
                 RegressionProduct(p, st, fair_values[p], history, dev)], dev)
    /\ UNCHANGED variant

MaxCalls == 2

Next ==
    \/ RunMain(TradingStates(calls), MaxCalls)
    \/ RunMeanRevert(TradingStates(calls), MaxCalls)
    \/ RunRegression(TradingStates(calls), MaxCalls)

Spec == Init /\ [][Next]_vars

(***************************************************************************)
(* SpecPartial: the three variants on ticks where each product is absent,  *)
(* one-sided or quoted, in every combination.                              *)
(***************************************************************************)
QuotedDepths ==
    (RESIN :> { Depth({9990, 9994}, {9996, 10001}) })
    @@
    (KELP :> { Depth({2032, 2031}, {2035}) })

PartialScenarios ==
    { sc \in [Products -> UNION {ProductScenarios(p) : p \in Products}] :
        \A p \in Products :
            \/ sc[p] = Absent
            \/ sc[p].od \in PartialDepths[p] /\ sc[p].pos = 0
            \/ sc[p].od \in QuotedDepths[p] /\ sc[p].pos \in {0, 20} }

PartialStates(t) == { MakeState(t, sc) : sc \in PartialScenarios }

PartialCalls == 2

NextPartial ==
    \/ RunMain(PartialStates(calls), PartialCalls)
    \/ RunMeanRevert(PartialStates(calls), PartialCalls)
    \/ RunRegression(PartialStates(calls), PartialCalls)

SpecPartial == Init /\ [][NextPartial]_vars

(***************************************************************************)
(* SpecWindow: arbitrary_regression over enough ticks to fill the window.  *)
(* RAINFOREST_RESIN is quoted at the reference book on most ticks; every   *)
(* VariedEvery-th tick it may also be one-sided or quoted elsewhere.       *)
(***************************************************************************)
WindowCalls == 56
VariedEvery == 13

SteadyScenario ==
    (RESIN :> [present |-> TRUE, od |-> Depth({9999, 9998}, {10001, 10003}), pos |-> 0])
    @@ (KELP :> Absent)

VariedScenarios ==
    { (RESIN :> s) @@ (KELP :> k) :
        s \in { [present |-> TRUE, od |-> Depth({9999}, {}), pos |-> 0],
                [present |-> TRUE, od |-> Depth({10008}, {10012}), pos |-> 20],
                [present |-> TRUE, od |-> Depth({9986}, {9990}), pos |-> -5] },
        k \in { Absent,
                [present |-> TRUE, od |-> Depth({2028}, {2029}), pos |-> 0] } }

WindowStates(t) ==
    { MakeState(t, sc) :
        sc \in {SteadyScenario}
               \cup (IF t % VariedEvery = 0 THEN VariedScenarios ELSE {}) }

InitWindow == Init /\ variant = "arbitrary_regression"

NextWindow == RunRegression(WindowStates(calls), WindowCalls)

SpecWindow == InitWindow /\ [][NextWindow]_vars

(***************************************************************************)
(* SpecSizing: the first call of mean_revert at every position within      *)
(* the limit, for every quoted book of one product.                        *)
(***************************************************************************)
SizingScenarios ==
    { sc \in [Products -> UNION {{Absent},
                                 { [present |-> TRUE, od |-> d, pos |-> q] :
                                     d \in UNION {FullDepths[p] : p \in Products},
                                     q \in -50..50 }}] :
        \E p \in Products :
            /\ sc[p].present /\ sc[p].od \in FullDepths[p]
            /\ -mr_position_limits[p] <= sc[p].pos
            /\ sc[p].pos <= mr_position_limits[p]
            /\ \A q \in Products \ {p} : sc[q] = Absent }

SizingStates(t) == { MakeState(t, sc) : sc \in SizingScenarios }

InitSizing == Init /\ variant = "mean_revert"

NextSizing == RunMeanRevert(SizingStates(calls), 1)

SpecSizing == InitSizing /\ [][NextSizing]_vars

(***************************************************************************)
(* Claims.                                                                 *)
(***************************************************************************)
Called == calls > 0

PositionLimit(p) ==
    IF variant = "main" THEN main_position_limits[p]
    ELSE IF variant = "mean_revert" THEN mr_position_limits[p]
    ELSE ar_position_limits[p]

Listed(st, p) == p \in DOMAIN st.order_depths

FullBook(st, p) ==
    /\ Listed(st, p)
    /\ st.order_depths[p].buy_orders # {}
    /\ st.order_depths[p].sell_orders # {}

OneSided(st, p) == Listed(st, p) /\ ~FullBook(st, p)

\* the orders result holds for p (none when p has no entry)
OrdersOf(res, p) == IF p \in DOMAIN res THEN res[p] ELSE <<>>

Quantities(res, p) == { OrdersOf(res, p)[i].quantity : i \in 1..Len(OrdersOf(res, p)) }

MidOf(st, p) ==
    mid_market(Max(st.order_depths[p].buy_orders), Min(st.order_depths[p].sell_orders))

MeanReversion(p) == mode[p] \in {"UNWIND_LONG", "COVER_SHORT"}

\* C1: every order run emits for a product, applied on its own to the current
\* position p (-L <= p <= L), leaves the position within [-L, L]; the
\* market-making legs included.
C1_PositionLimitRespected ==
    \A p \in Products : \A q \in Quantities(result, p) :
        /\ -PositionLimit(p) <= CurrentPosition(state, p) + q
        /\ CurrentPosition(state, p) + q <= PositionLimit(p)

\* C2: run never emits an order of quantity zero, and the quantity's sign is
\* that of the order's side: the UNWIND_LONG order sells (quantity < 0), the
\* COVER_SHORT order buys (quantity > 0), also at p = -L.
C2_NoZeroQuantity ==
    \A p \in Products : \A q \in Quantities(result, p) :
        /\ q # 0
        /\ mode[p] = "UNWIND_LONG" => q < 0
        /\ mode[p] = "COVER_SHORT" => q > 0

\* C3: the mapping every call of run returns has an entry for each configured
\* product, also when the product is absent from the snapshot or one-sided.
C3_EntryForEveryProduct == Called => DOMAIN result = Products

\* C4: a tick on which a product's book has no bid or no ask emits no order
\* for the product and leaves its fair value and the regression history as
\* they were before the tick.
C4_OneSidedBookSkipped ==
    [][\A p \in Products :
          OneSided(state', p) =>
              /\ OrdersOf(result', p) = <<>>
              /\ fair_values'[p] = fair_values[p]
              /\ (p = RESIN => history' = history)]_vars

\* C4's case: after an earlier tick updated the estimator state of a product,
\* a tick with a one-sided book for it has been processed.
C4_Witness ==
    /\ calls = 2
    /\ \E p \in Products :
          /\ OneSided(state, p)
          /\ \/ variant # "arbitrary_regression"
                /\ fair_values[p] # InitialFairValues(variant)[p]
             \/ variant = "arbitrary_regression" /\ p = RESIN /\ Len(history) = 1

\* C5: for every product with a full book the mode selected is the one the
\* priority rule gives on the inventory-adjusted fair value f - k*p (f the
\* updated fair value): UNWIND_LONG iff mid > f - k*p + threshold and p > 0,
\* otherwise COVER_SHORT iff mid < f - k*p - threshold and p < 0, otherwise
\* MARKET_MAKE.
C5_ModeByAdjustedFairValue ==
    (Called /\ variant \in {"main", "mean_revert"}) =>
        \A p \in Products :
            FullBook(state, p) =>
                mode[p] = AdjustedMode(
                              MidOf(state, p),
                              InventoryAdjusted(fair_values[p],
                                                CurrentPosition(state, p),
                                                FDivInt(1, 10)),
                              FFromInt(IF variant = "main" THEN main_thresholds[p]
                                       ELSE mr_base_thresholds[p]),
                              CurrentPosition(state, p))

\* C6: in MARKET_MAKE mode no buy order is emitted at position L and no sell
\* order at position -L.
C6_HeadroomGating ==
    \A p \in Products :
        mode[p] = "MARKET_MAKE" =>
            /\ CurrentPosition(state, p) >= PositionLimit(p)
                   => \A q \in Quantities(result, p) : q <= 0
            /\ CurrentPosition(state, p) <= -PositionLimit(p)
                   => \A q \in Quantities(result, p) : q >= 0

\* C7: the order of UNWIND_LONG or COVER_SHORT, applied to the position p,
\* gives a position no larger in magnitude and not of the opposite sign.
C7_OnlyTrimsExposure ==
    \A p \in Products :
        MeanReversion(p) =>
            \A q \in Quantities(result, p) :
                /\ abs(CurrentPosition(state, p) + q) <= abs(CurrentPosition(state, p))
                /\ (CurrentPosition(state, p) + q) * CurrentPosition(state, p) >= 0

FBetween(x, a, b) ==
    \/ FLe(a, x) /\ FLe(x, b)
    \/ FLe(b, x) /\ FLe(x, a)

\* C8: on every tick with a full book the new fair value lies between the old
\* fair value and the mid-price, both included (main, mean_revert).
C8_SmoothingConvex ==
    [][\A p \in Products :
          (variant \in {"main", "mean_revert"} /\ FullBook(state', p)) =>
              FBetween(fair_values'[p], fair_values[p], MidOf(state', p))]_vars

\* C9: the history never holds more than history_window entries, and every
\* tick with a full RAINFOREST_RESIN book appends (timestamp, mid) at the end,
\* dropping the oldest entry exactly when the window was already full.
C9_WindowFifo ==
    /\ [](Len(history) <= ar_history_window)
    /\ [][(variant = "arbitrary_regression" /\ FullBook(state', RESIN)) =>
             history' = Append(IF Len(history) < ar_history_window
                               THEN history ELSE Tail(history),
                               <<state'.timestamp, MidOf(state', RESIN)>>)]_vars

\* C9's case: the window is full, its oldest entries have been evicted (the
\* ticks 1 and 2 always append), and a skipped tick lies inside the window.
C9_Witness ==
    /\ Len(history) = ar_history_window
    /\ history[1][1] > 2
    /\ \E i \in 1..(ar_history_window - 1) : history[i + 1][1] > history[i][1] + 1

\* the size the claim states, in integer arithmetic
ClaimedSize(base, pos, limit) ==
    IF abs(pos) < 10 THEN base
    ELSE max((base * (limit - abs(pos))) \div (limit - 10), base \div 2)

\* C10: the orders of mean_revert are sized by the base size when |p| < 10 and
\* by max(floor(base * (1 - (|p| - 10) / (L - 10))), floor(base / 2))
\* otherwise; the size lies in [floor(base / 2), base] and does not grow with |p|.
C10_DynamicSize ==
    Called =>
        \A p \in Products :
            FullBook(state, p) =>
                LET pos  == CurrentPosition(state, p)
                    lim  == mr_position_limits[p]
                    base == mr_base_order_sizes[p]
                    size == ClaimedSize(base, pos, lim)
                IN  /\ mode[p] = "UNWIND_LONG"
                           => Quantities(result, p) = {-min(size, pos)}
                    /\ mode[p] = "COVER_SHORT"
                           => Quantities(result, p) = {min(size, lim - abs(pos))}
                    /\ mode[p] = "MARKET_MAKE"
                           => Quantities(result, p) =
                                  {size : x \in {1} \cap {IF pos < lim THEN 1 ELSE 0}}
                                  \cup {-size : x \in {1} \cap {IF pos > -lim THEN 1 ELSE 0}}
                    /\ base \div 2 <= size /\ size <= base
                    /\ abs(pos) < lim
                           => dynamic_size(base, abs(pos) + 1, lim) <= size

\* C10's case: a scaled-down two-sided quote (|p| = 20, base 30: 22 units).
C10_Witness ==
    /\ Called
    /\ FullBook(state, RESIN)
    /\ CurrentPosition(state, RESIN) = -20
    /\ mode[RESIN] = "MARKET_MAKE"
    /\ Quantities(result, RESIN) = {22, -22}

====
